---- MODULE Spec2Model ----
(***************************************************************************)
(* Model of src/src/tg_bot/botApi.js: the Stars withdrawal flow            *)
(* (getPasswordParams, createPasswordCheckPayload,                         *)
(* getStarsRevenueWithdrawalUrl), the pre_checkout_query handler and the   *)
(* useMainContract polling hook that the file also holds.                  *)
(*                                                                         *)
(* Scaling.  The group modulus of the source is a 712-bit literal and the  *)
(* digests are 256 bits wide; the model keeps the radix (256) and the      *)
(* generator (2) and scales the modulus to N = 0x12C and the digest to     *)
(* HashMod values.  The literal of lines 116-117 ends in the hex digits    *)
(* ...9A2C: it is even, divisible by 4 and not by 8; 0x12C keeps its low   *)
(* byte and still needs two base-256 digits, so short encodings exist.     *)
(***************************************************************************)
EXTENDS Integers, Sequences, FiniteSets

\* ------------------------------------------------------------------ bounds
MaxB == 302          \* srp_B values 0 .. MaxB-1 are offered (covers B >= N)
MaxA == 24           \* crypto.randomBytes outcomes 0 .. MaxA-1 (2 has order
                     \* 20 modulo the odd part of N: every power occurs)
HashMod == 16        \* number of digest values of the scaled sha256
MaxAttempts == 3     \* calls of getStarsRevenueWithdrawalUrl (concurrent spec)
MaxQueries == 2      \* pre_checkout_query updates per behaviour
MaxContracts == 3    \* values mainContract takes per behaviour

\* ------------------------------------------------------- program constants
g == 2
N == 300
Radix == 256
HexRadix == 16

\* --------------------------------------------------- big-integer library
\* bigInt.mod: the remainder takes the sign of the dividend.
TruncMod(v, m) == IF v >= 0 THEN v % m ELSE -((-v) % m)

\* The loop of bigInt.modPow: r starts at 1; while exp > 0: a zero base
\* returns 0, an odd exp multiplies r by base, exp halves, base squares.
RECURSIVE PowLoop(_, _, _, _)
PowLoop(r, base, e, m) ==
    IF e <= 0 THEN r
    ELSE IF base = 0 THEN 0
    ELSE PowLoop(IF e % 2 = 1 THEN TruncMod(r * base, m) ELSE r,
                 TruncMod(base * base, m), e \div 2, m)

\* this.modPow(exp, mod): the base is first reduced with bigInt.mod, which
\* keeps a negative base negative.
modPow(base, e, m) == PowLoop(1, TruncMod(base, m), e, m)

\* Digits of a non-negative value, most significant first, no padding.
RECURSIVE DigitsOf(_, _)
DigitsOf(v, radix) ==
    IF v < radix THEN <<v>>
    ELSE Append(DigitsOf(v \div radix, radix), v % radix)

Abs(v) == IF v < 0 THEN -v ELSE v

\* v.toArray(256).value: the digits of |v|; the sign goes to .isNegative.
toArray(v) == DigitsOf(Abs(v), Radix)

\* v.toString(16) as its hex digits (for v >= 0).
toHex(v) == DigitsOf(v, HexRadix)

\* bigInt(text, 16) for a text of valid hex digits.
RECURSIVE ParseHex(_)
ParseHex(ds) ==
    IF Len(ds) = 0 THEN 0
    ELSE ParseHex(SubSeq(ds, 1, Len(ds) - 1)) * HexRadix + ds[Len(ds)]

ValidHex(ds) == \A k \in 1..Len(ds) : ds[k] \in 0..(HexRadix - 1)

\* ------------------------------------------------------------ node crypto
\* crypto.createHash('sha256').update(bytes).digest(), read back as an
\* integer: a scaled digest that depends on every byte and on the length.
RECURSIVE sha256(_)
sha256(bytes) ==
    IF Len(bytes) = 0 THEN 5
    ELSE (sha256(SubSeq(bytes, 1, Len(bytes) - 1)) * 3 + bytes[Len(bytes)] + 1)
             % HashMod

\* ------------------------------------------------------------------ state
VARIABLES
    att,          \* per call slot: position and locals of one
                  \* getStarsRevenueWithdrawalUrl call
    log,          \* what console.log / console.error have written
    calls,        \* payments.getStarsRevenueWithdrawalUrl calls issued
    draws,        \* outputs of crypto.randomBytes, in call order, each with
                  \* the calls that read it as their a
    nAttempts,    \* calls of getStarsRevenueWithdrawalUrl started so far
    bq,           \* per pre_checkout_query: handler position, answers issued
    mounted,      \* the component using useMainContract is mounted
    mainContract, \* 0: not initialised; k > 0: the k-th opened contract
    chains,       \* getValue chains, in start order
    contractData, \* 0: null; k > 0: data read from contract k
    balance       \* 0: initial; k > 0: balance read from contract k

flowVars == <<att, log, calls, draws, nAttempts>>
botVars  == <<bq>>
hookVars == <<mounted, mainContract, chains, contractData, balance>>
vars == <<att, log, calls, draws, nAttempts, bq, mounted, mainContract,
          chains, contractData, balance>>

Slots == 1..2
Keys == {"srp_id", "srp_B", "current_salt"}

\* account.getPassword responses: `has` lists the fields the object holds;
\* srp_id is an integer id, srp_B a text of hex digits, current_salt the
\* bytes its base64 text decodes to (the empty text decodes to no bytes).
NoParams == [has |-> {}, srp_id |-> 0, srp_B |-> <<>>, current_salt |-> <<>>]

ParamsOver(ids, bs, salts) ==
    { r \in [has : SUBSET Keys, srp_id : ids \cup {0}, srp_B : bs \cup {<<>>},
             current_salt : salts \cup {<<>>}] :
        /\ ("srp_id" \notin r.has => r.srp_id = 0)
        /\ ("srp_B" \notin r.has => r.srp_B = <<>>)
        /\ ("current_salt" \notin r.has => r.current_salt = <<>>) }

BadHexText == <<16>>
SrpIds    == {0, 7}
SrpBs     == {toHex(n) : n \in 0..(MaxB - 1)} \cup {<<>>, <<0, 0>>, BadHexText}
Salts     == {<<>>, <<3>>, <<1, 2>>}
Passwords == {<<1>>, <<2, 7>>}
RandomAs  == 0..(MaxA - 1)

IdleAttempt ==
    [pc |-> "idle", no |-> 0, password |-> <<>>, params |-> NoParams,
     got |-> {}, draw |-> 0, a |-> 0, x |-> 0, A |-> 0, B |-> 0, u |-> 0,
     S |-> 0, M1 |-> 0, err |-> "none"]

\* ------------------------------------------------------ getPasswordParams
\* !passwordDetails.<key>: undefined, 0 and the empty string are all falsy.
Falsy(p, key) ==
    \/ key \notin p.has
    \/ key = "srp_id" /\ p.srp_id = 0
    \/ key = "srp_B" /\ Len(p.srp_B) = 0
    \/ key = "current_salt" /\ Len(p.current_salt) = 0

\* The test of line 96.
MissingFields(p) ==
    Falsy(p, "srp_id") \/ Falsy(p, "srp_B") \/ Falsy(p, "current_salt")

\* ----------------------------------------------- createPasswordCheckPayload
\* A module-level ephemeral, drawn once and kept: every later call reads
\* the first output again.
CachedDrawIndex(ds) == 1

\* The index of the crypto.randomBytes output this call reads: the call of
\* line 126 is made inside the function, so it is always a new output.
DrawIndex(ds) == Len(ds) + 1

\* Lines 121-125: salt, passwordHash, x.
SessionX(salt, password) == sha256(salt \o password)

\* g.pow(a) in place of g.modPow(a, N).
PublicAUnreduced(a) == g ^ a

\* Line 127.
PublicA(a) == modPow(g, a, N)

\* Line 130-131: u over the digit arrays of A and B.
Scramble(A, B) == sha256(toArray(A) \o toArray(B))

\* Line 133: B.subtract(g.modPow(x, N)) is not reduced before modPow.
SecretBase(B, x) == B - modPow(g, x, N)

\* The exponent a + u in place of a + u*x.
SharedSPlainSum(B, x, a, u) == modPow(SecretBase(B, x), a + u, N)

SharedS(B, x, a, u) == modPow(SecretBase(B, x), a + u * x, N)

\* Line 134.
ProofM1(A, B, S) == sha256(toArray(A) \o toArray(B) \o toArray(S))

\* Lines 136-141.
Payload(srp_id, A, M1) == [srp_id |-> srp_id, A |-> toHex(A), M1 |-> M1]

\* ------------------------------------------------------------------- logs
\* A log entry names the call, the source line and the values the logged
\* object lets a reader see.
Entry(no, line, shows) == [no |-> no, line |-> line, shows |-> shows]

\* Line 90 logs the whole response object.
ParamsShown(p) == p.has

\* Errors logged at lines 102 and 167.  An error of bot.telegram.callApi
\* carries the method and the payload of the failed call; the others carry
\* a fixed message, or the text bigInt could not parse.
FetchErrorShown == {"method"}

\* An error handler that also logs the arguments of the call.
ErrorWithArgumentsShown == {"starsAmount", "password"}

PlainErrorShown == {}
ParseErrorShown == {"srp_B"}
WithdrawErrorShown == {"method", "stars", "srp_id", "A", "M1"}
ResponseShown == {"url"}

\* ---------------------------------------------- getStarsRevenueWithdrawalUrl
\* Line 147: a call starts and awaits account.getPassword (lines 150, 89).
StartAttempt(i, cap, pws) ==
    /\ att[i].pc = "idle"
    /\ nAttempts < cap
    /\ \E pw \in pws :
         att' = [att EXCEPT ![i] = [IdleAttempt EXCEPT !.pc = "fetching",
                                     !.no = nAttempts + 1, !.password = pw]]
    /\ nAttempts' = nAttempts + 1
    /\ UNCHANGED <<log, calls, draws, botVars, hookVars>>

Fail(rec, why) == [rec EXCEPT !.pc = "failed", !.err = why]

\* callApi('account.getPassword') rejects: caught and logged at 102, rethrown,
\* caught and logged at 167, rethrown to the caller.
FetchRejects(i) ==
    /\ att[i].pc = "fetching"
    /\ att' = [att EXCEPT ![i] = Fail(@, "api")]
    /\ log' = log \cup {Entry(att[i].no, 102, FetchErrorShown),
                        Entry(att[i].no, 167, FetchErrorShown)}
    /\ UNCHANGED <<calls, draws, nAttempts, botVars, hookVars>>

\* The call resolves with nothing: logged at 90, the throw of line 93.
FetchNoResponse(i) ==
    /\ att[i].pc = "fetching"
    /\ att' = [att EXCEPT ![i] = Fail(@, "noresponse")]
    /\ log' = log \cup {Entry(att[i].no, 90, {}),
                        Entry(att[i].no, 102, PlainErrorShown),
                        Entry(att[i].no, 167, PlainErrorShown)}
    /\ UNCHANGED <<calls, draws, nAttempts, botVars, hookVars>>

\* The call resolves with an object that fails the test of line 96.
FetchMissing(i, ps) ==
    /\ att[i].pc = "fetching"
    /\ \E p \in ps :
         /\ MissingFields(p)
         /\ att' = [att EXCEPT ![i] = Fail([@ EXCEPT !.params = p], "missing")]
         /\ log' = log \cup {Entry(att[i].no, 90, ParamsShown(p)),
                             Entry(att[i].no, 102, PlainErrorShown),
                             Entry(att[i].no, 167, PlainErrorShown)}
    /\ UNCHANGED <<calls, draws, nAttempts, botVars, hookVars>>

\* Lines 121-127 of createPasswordCheckPayload, run for every response that
\* passes line 96: x from salt and password, a from crypto.randomBytes, A.
FirstLocals(rec, p, fresh, ds) ==
    LET k == DrawIndex(ds)
        a == IF k <= Len(ds) THEN ds[k].val ELSE fresh
    IN [rec EXCEPT !.params = p, !.draw = k, !.a = a,
                   !.x = SessionX(p.current_salt, rec.password),
                   !.A = PublicA(a), !.got = {"x", "a", "A"}]

DrawsAfter(fresh, ds, no) ==
    LET k == DrawIndex(ds)
    IN IF k <= Len(ds) THEN [ds EXCEPT ![k].by = @ \cup {no}]
       ELSE Append(ds, [val |-> fresh, by |-> {no}])

\* bigInt(srp_B, 16) of line 129 throws on a text that is not hex digits;
\* the error is logged at 167.
ProofParseError(i, ps, as) ==
    /\ att[i].pc = "fetching"
    /\ \E p \in ps, a \in as :
         /\ ~MissingFields(p)
         /\ ~ValidHex(p.srp_B)
         /\ att' = [att EXCEPT ![i] = Fail(FirstLocals(@, p, a, draws), "parse")]
         /\ draws' = DrawsAfter(a, draws, att[i].no)
         /\ log' = log \cup {Entry(att[i].no, 90, ParamsShown(p)),
                             Entry(att[i].no, 167, ParseErrorShown)}
    /\ UNCHANGED <<calls, nAttempts, botVars, hookVars>>

\* Buffer.concat of line 130 is handed the plain digit arrays of
\* toArray(256).value, not Buffers: a runtime that checks its list elements
\* throws a TypeError there (logged at 167), one that does not copies the
\* digits.  Both outcomes are kept; this is the first.
ProofConcatThrows(i, ps, as) ==
    /\ att[i].pc = "fetching"
    /\ \E p \in ps, a \in as :
         /\ ~MissingFields(p)
         /\ ValidHex(p.srp_B)
         /\ att' = [att EXCEPT ![i] =
                Fail([FirstLocals(@, p, a, draws) EXCEPT
                         !.B = ParseHex(p.srp_B),
                         !.got = {"x", "a", "A", "B"}], "type")]
         /\ draws' = DrawsAfter(a, draws, att[i].no)
         /\ log' = log \cup {Entry(att[i].no, 90, ParamsShown(p)),
                             Entry(att[i].no, 167, PlainErrorShown)}
    /\ UNCHANGED <<calls, nAttempts, botVars, hookVars>>

\* The second outcome: lines 129-141 complete and line 156 issues
\* payments.getStarsRevenueWithdrawalUrl with the payload.
ProofThenWithdraw(i, ps, as) ==
    /\ att[i].pc = "fetching"
    /\ \E p \in ps, a \in as :
         LET r1 == FirstLocals(att[i], p, a, draws)
             B  == ParseHex(p.srp_B)
             u  == Scramble(r1.A, B)
             S  == SharedS(B, r1.x, r1.a, u)
             M1 == ProofM1(r1.A, B, S)
         IN /\ ~MissingFields(p)
            /\ ValidHex(p.srp_B)
            /\ att' = [att EXCEPT ![i] =
                   [r1 EXCEPT !.pc = "withdrawing", !.B = B, !.u = u, !.S = S,
                              !.M1 = M1,
                              !.got = {"x", "a", "A", "B", "u", "S", "M1"}]]
            /\ draws' = DrawsAfter(a, draws, att[i].no)
            /\ calls' = calls \cup
                   {[no |-> att[i].no, password |-> Payload(p.srp_id, r1.A, M1)]}
            /\ log' = log \cup {Entry(att[i].no, 90, ParamsShown(p))}
    /\ UNCHANGED <<nAttempts, botVars, hookVars>>

\* Lines 164-165: the response is logged and its url returned.
WithdrawReturns(i) ==
    /\ att[i].pc = "withdrawing"
    /\ att' = [att EXCEPT ![i].pc = "done"]
    /\ log' = log \cup {Entry(att[i].no, 164, ResponseShown)}
    /\ UNCHANGED <<calls, draws, nAttempts, botVars, hookVars>>

\* The call resolves with nothing: logged at 164, response.url throws.
WithdrawReturnsNothing(i) ==
    /\ att[i].pc = "withdrawing"
    /\ att' = [att EXCEPT ![i] = Fail(@, "response")]
    /\ log' = log \cup {Entry(att[i].no, 164, {}),
                        Entry(att[i].no, 167, PlainErrorShown)}
    /\ UNCHANGED <<calls, draws, nAttempts, botVars, hookVars>>

\* The call rejects: logged at 167 and rethrown.
WithdrawRejects(i) ==
    /\ att[i].pc = "withdrawing"
    /\ att' = [att EXCEPT ![i] = Fail(@, "api")]
    /\ log' = log \cup {Entry(att[i].no, 167, WithdrawErrorShown)}
    /\ UNCHANGED <<calls, draws, nAttempts, botVars, hookVars>>

\* The caller calls again after a call has ended: a new activation of the
\* function, none of whose locals carries over.
Retry(i) ==
    /\ att[i].pc \in {"done", "failed"}
    /\ nAttempts < MaxAttempts
    /\ att' = [att EXCEPT ![i] = IdleAttempt]
    /\ UNCHANGED <<log, calls, draws, nAttempts, botVars, hookVars>>

\* ------------------------------------------------ bot.on('pre_checkout_query')
Queries == 1..MaxQueries
InvoicePayloads == {"{}", "", "{\"skin\":1}"}

NoQuery == [pc |-> "none", invoice_payload |-> "", answers |-> <<>>]

\* A truthiness test in place of the comparison with '{}'.
TruthyPayload(text) == text # ""

\* Line 61 negated: the payload the handler approves.
ApprovedPayload(text) == text = "{}"

\* An update arrives: lines 54-63 or 54-68 run up to the first await, which
\* has issued answerPreCheckoutQuery(false, ...) or answerPreCheckoutQuery(true).
PreCheckout(q) ==
    /\ bq[q].pc = "none"
    /\ \E text \in InvoicePayloads :
         bq' = [bq EXCEPT ![q] =
                  [pc |-> "answering", invoice_payload |-> text,
                   answers |-> <<[ok |-> ApprovedPayload(text),
                                  res |-> "pending"]>>]]
    /\ UNCHANGED <<flowVars, hookVars>>

\* The awaited answer resolves: line 64 returns, or line 69 logs.
AnswerResolves(q) ==
    /\ bq[q].pc = "answering"
    /\ bq' = [bq EXCEPT ![q].pc = "handled", ![q].answers[1].res = "sent"]
    /\ UNCHANGED <<flowVars, hookVars>>

\* The awaited answer rejects: the catch of line 70 logs and line 72 issues
\* answerPreCheckoutQuery(false, 'Failed to process payment.').
AnswerRejects(q) ==
    /\ bq[q].pc = "answering"
    /\ bq' = [bq EXCEPT ![q].pc = "fallback",
                        ![q].answers = <<[@[1] EXCEPT !.res = "failed"],
                                         [ok |-> FALSE, res |-> "pending"]>>]
    /\ UNCHANGED <<flowVars, hookVars>>

\* The answer of line 72 resolves.
FallbackResolves(q) ==
    /\ bq[q].pc = "fallback"
    /\ bq' = [bq EXCEPT ![q].pc = "handled", ![q].answers[2].res = "sent"]
    /\ UNCHANGED <<flowVars, hookVars>>

\* The answer of line 72 rejects: the handler's promise rejects.
FallbackRejects(q) ==
    /\ bq[q].pc = "fallback"
    /\ bq' = [bq EXCEPT ![q].pc = "threw", ![q].answers[2].res = "failed"]
    /\ UNCHANGED <<flowVars, hookVars>>

\* ------------------------------------------------------------ useMainContract
\* A chain is one run of getValue and the runs it schedules after itself; it
\* reads the mainContract its effect closed over.
Live(c) == c.pc # "dead"

\* useAsyncInitialize delivers a (new) opened contract; the effect of lines
\* 211-227 runs again, there is no cleanup of the run before: getValue passes
\* line 213, sets the data to null and awaits getData.
InitContract ==
    /\ mounted
    /\ mainContract < MaxContracts
    /\ mainContract' = mainContract + 1
    /\ chains' = Append(chains, [contract |-> mainContract + 1, pc |-> "getData"])
    /\ contractData' = 0
    /\ UNCHANGED <<mounted, balance, flowVars, botVars>>

\* Line 215 resolves; line 216 awaits getBalance.
GetDataReturns(k) ==
    /\ chains[k].pc = "getData"
    /\ chains' = [chains EXCEPT ![k].pc = "getBalance"]
    /\ UNCHANGED <<mounted, mainContract, contractData, balance, flowVars, botVars>>

\* Line 216 resolves; lines 217-223 set the data and the balance read from
\* the chain's contract (a state setter of an unmounted component changes
\* nothing) and sleep.
GetBalanceReturns(k) ==
    /\ chains[k].pc = "getBalance"
    /\ chains' = [chains EXCEPT ![k].pc = "sleep"]
    /\ contractData' = IF mounted THEN chains[k].contract ELSE contractData
    /\ balance' = IF mounted THEN chains[k].contract ELSE balance
    /\ UNCHANGED <<mounted, mainContract, flowVars, botVars>>

\* The sleep of line 223 ends; line 224 runs getValue again: its closure's
\* mainContract is still set, so lines 214-215 run.
SleepEnds(k) ==
    /\ chains[k].pc = "sleep"
    /\ chains' = [chains EXCEPT ![k].pc = "getData"]
    /\ contractData' = IF mounted THEN 0 ELSE contractData
    /\ UNCHANGED <<mounted, mainContract, balance, flowVars, botVars>>

\* getData or getBalance rejects: getValue's promise rejects, nothing
\* schedules a further run.
ContractCallFails(k) ==
    /\ chains[k].pc \in {"getData", "getBalance"}
    /\ chains' = [chains EXCEPT ![k].pc = "dead"]
    /\ UNCHANGED <<mounted, mainContract, contractData, balance, flowVars, botVars>>

\* The component unmounts; the effect returns no cleanup function.
Unmount ==
    /\ mounted
    /\ mounted' = FALSE
    /\ UNCHANGED <<mainContract, chains, contractData, balance, flowVars, botVars>>

\* --------------------------------------------------------- specifications
Init ==
    /\ att = [i \in Slots |-> IdleAttempt]
    /\ log = {}
    /\ calls = {}
    /\ draws = <<>>
    /\ nAttempts = 0
    /\ bq = [q \in Queries |-> NoQuery]
    /\ mounted = TRUE
    /\ mainContract = 0
    /\ chains = <<>>
    /\ contractData = 0
    /\ balance = 0

AllParams == ParamsOver(SrpIds, SrpBs, Salts)

\* One withdrawal call, over every response and every draw of the bounds.
Next ==
    \/ StartAttempt(1, 1, Passwords)
    \/ FetchRejects(1)
    \/ FetchNoResponse(1)
    \/ FetchMissing(1, AllParams)
    \/ ProofParseError(1, AllParams, RandomAs)
    \/ ProofConcatThrows(1, AllParams, RandomAs)
    \/ ProofThenWithdraw(1, AllParams, RandomAs)
    \/ WithdrawReturns(1)
    \/ WithdrawReturnsNothing(1)
    \/ WithdrawRejects(1)

Spec == Init /\ [][Next]_vars

\* Concurrent and repeated withdrawal calls, over a few responses and draws.
FewParams ==
    { [has |-> Keys, srp_id |-> 7, srp_B |-> <<5>>, current_salt |-> <<3>>],
      [has |-> Keys, srp_id |-> 7, srp_B |-> BadHexText, current_salt |-> <<3>>] }
FewAs == {0, 3}

NextConc ==
    \/ \E i \in Slots : StartAttempt(i, MaxAttempts, Passwords)
    \/ \E i \in Slots : FetchRejects(i)
    \/ \E i \in Slots : ProofParseError(i, FewParams, FewAs)
    \/ \E i \in Slots : ProofConcatThrows(i, FewParams, FewAs)
    \/ \E i \in Slots : ProofThenWithdraw(i, FewParams, FewAs)
    \/ \E i \in Slots : WithdrawReturns(i)
    \/ \E i \in Slots : Retry(i)

SpecConc == Init /\ [][NextConc]_vars

NextBot ==
    \/ \E q \in Queries : PreCheckout(q)
    \/ \E q \in Queries : AnswerResolves(q)
    \/ \E q \in Queries : AnswerRejects(q)
    \/ \E q \in Queries : FallbackResolves(q)
    \/ \E q \in Queries : FallbackRejects(q)

SpecBot == Init /\ [][NextBot]_vars

NextHook ==
    \/ InitContract
    \/ Unmount
    \/ \E k \in 1..Len(chains) : GetDataReturns(k)
    \/ \E k \in 1..Len(chains) : GetBalanceReturns(k)
    \/ \E k \in 1..Len(chains) : SleepEnds(k)
    \/ \E k \in 1..Len(chains) : ContractCallFails(k)

SpecHook == Init /\ [][NextHook]_vars

\* ------------------------------------------------------------------ claims
\* Byte length of N.
W == Len(DigitsOf(N, Radix))

\* A call that has run createPasswordCheckPayload on a response with a
\* well-formed srp_B.
Parsed(r) == "B" \in r.got
Proved(r) == "S" \in r.got
CallOf(r) == { c \in calls : c.no = r.no }

\* C1: a challenge whose B is 0 or >= N ends the call in an error: nothing of
\* the proof is computed from B, no payload is built and the withdrawal call
\* is not made.
C1_InvalidBRejected ==
    \A i \in Slots :
        (Parsed(att[i]) /\ (att[i].B = 0 \/ att[i].B >= N))
            => /\ att[i].pc = "failed"
               /\ ~Proved(att[i])
               /\ CallOf(att[i]) = {}

\* C2: for a valid B the base of the shared-secret exponentiation,
\* B - g^x mod N, is a value of 0..N-1, and so is S.
C2_BaseNormalized ==
    \A i \in Slots :
        (Proved(att[i]) /\ att[i].B \in 1..(N - 1))
            => /\ SecretBase(att[i].B, att[i].x) \in 0..(N - 1)
               /\ att[i].S \in 0..(N - 1)

\* C3: A, B and S are each hashed as exactly W bytes, W the byte length of N.
C3_FixedWidth ==
    \A i \in Slots :
        (Proved(att[i]) /\ att[i].B \in 1..(N - 1))
            => /\ Len(toArray(att[i].A)) = W
               /\ Len(toArray(att[i].B)) = W
               /\ att[i].S \in 0..(N - 1) => Len(toArray(att[i].S)) = W

\* A response with all three fields present and well-formed: an integer id,
\* a non-empty text of hex digits naming a B of 1..N-1, a non-empty salt.
WellFormed(p) ==
    /\ p.has = Keys
    /\ Len(p.srp_B) > 0 /\ ValidHex(p.srp_B)
    /\ ParseHex(p.srp_B) \in 1..(N - 1)
    /\ Len(p.current_salt) > 0

\* C4: a response lacking srp_id, srp_B or current_salt fails the call with
\* nothing computed and no withdrawal call; a response holding all three,
\* well-formed, is not rejected as missing.
C4_MissingIffRejected ==
    \A i \in Slots :
        att[i].pc \notin {"idle", "fetching"} =>
            /\ (att[i].err \in {"noresponse", "missing"} \/ att[i].params.has # Keys)
                   => /\ att[i].pc = "failed"
                      /\ att[i].got = {}
                      /\ CallOf(att[i]) = {}
            /\ WellFormed(att[i].params) => att[i].err # "missing"

\* C8: A = g^a mod N lies in 1..N-1 for every drawn a, 0 included.
C8_PublicAInRange ==
    \A i \in Slots : "A" \in att[i].got => att[i].A \in 1..(N - 1)

\* C8 witness: A was computed from the draw a = 0, and from a draw whose
\* power exceeds N.
C8_Witness ==
    \E i \in Slots :
        /\ "A" \in att[i].got
        /\ att[i].a = 0
        /\ att[i].A = 1

C8_WitnessWrap ==
    \E i \in Slots : "A" \in att[i].got /\ g ^ att[i].a > N

\* The verifier's value of the symmetry property, computed with the same x
\* and a: S' = (A * power(power(g, x), u))^a mod N, power being
\* exponentiation mod N on non-negative residues.
RECURSIVE RefPower(_, _)
RefPower(b, e) == IF e = 0 THEN 1 % N ELSE ((b % N) * RefPower(b, e - 1)) % N

VerifierS(A, x, u, a) == RefPower(A * RefPower(RefPower(g, x), u), a)

MatchedB(r) == (r.B - modPow(g, r.x, N) - r.A) % N = 0

C5_WitnessNegative ==
    \E i \in Slots : Proved(att[i]) /\ MatchedB(att[i]) /\ att[i].S < 0

\* C7: nothing written to the log shows the password, x, a or S, on the
\* success path and on every error path.
Secrets == {"password", "x", "a", "S"}

C7_NoSecretLogged == \A e \in log : e.shows \cap Secrets = {}

\* C7 witness: a call that logged the response of the fetch, the response of
\* the withdrawal and an error.
C7_Witness ==
    \E i \in Slots :
        /\ Proved(att[i])
        /\ \A line \in {90, 164, 167} :
              \E e \in log : e.no = att[i].no /\ e.line = line

\* C6: every call that has drawn its a reads an output of crypto.randomBytes
\* that no other call, concurrent or earlier, has read, and its x and A are
\* derived from its own salt, password and a.
C6_OwnEphemeral ==
    /\ \A k \in 1..Len(draws) : Cardinality(draws[k].by) = 1
    /\ \A i \in Slots :
          "a" \in att[i].got =>
              /\ att[i].draw \in 1..Len(draws)
              /\ draws[att[i].draw] = [val |-> att[i].a, by |-> {att[i].no}]
              /\ att[i].x = SessionX(att[i].params.current_salt, att[i].password)
              /\ att[i].A = PublicA(att[i].a)
    /\ \A i, j \in Slots :
          (i # j /\ "a" \in att[i].got /\ "a" \in att[j].got)
              => att[i].draw # att[j].draw

\* C6 witness: two calls are under way at once, both past their draw, one of
\* them a retry after a failed call, and their draws differ in value.
C6_Witness ==
    /\ nAttempts = MaxAttempts
    /\ \A i \in Slots : att[i].pc = "withdrawing"
    /\ att[1].a # att[2].a
    /\ att[1].password = att[2].password
    /\ Len(draws) = MaxAttempts
    /\ \E e \in log : e.line = 167

\* C9, as stated: every query gets exactly one answerPreCheckoutQuery call,
\* which approves exactly when invoice_payload is '{}'.
C9_ExactlyOneAnswer ==
    \A q \in Queries :
        bq[q].pc # "none" =>
            /\ Len(bq[q].answers) = 1
            /\ bq[q].answers[1].ok <=> (bq[q].invoice_payload = "{}")

\* C9, amended: the first answer call approves exactly when invoice_payload is
\* '{}'; a second call is issued exactly when the first one failed, and it
\* declines; there is never a third, and at most one call of a query succeeds.
C9_OneAnswerOrFallback ==
    \A q \in Queries :
        bq[q].pc # "none" =>
            LET ans == bq[q].answers
            IN /\ Len(ans) \in {1, 2}
               /\ ans[1].ok <=> (bq[q].invoice_payload = "{}")
               /\ (Len(ans) = 2) <=> (ans[1].res = "failed")
               /\ Len(ans) = 2 => ~ans[2].ok
               /\ Cardinality({k \in 1..Len(ans) : ans[k].res = "sent"}) <= 1
               /\ bq[q].pc = "handled" => ans[Len(ans)].res = "sent"

\* C9 witness: a query with payload '{}' whose approving answer failed and
\* whose declining second answer was sent, beside a query answered once.
C9_Witness ==
    \E q, r \in Queries :
        /\ bq[q].pc = "handled" /\ bq[q].invoice_payload = "{}"
        /\ Len(bq[q].answers) = 2
        /\ bq[r].pc = "handled" /\ Len(bq[r].answers) = 1
        /\ bq[r].answers[1].ok

\* C10: at most one getValue chain is active; a chain started for an earlier
\* mainContract, or before the unmount, no longer fetches.
C10_SingleChain ==
    /\ \A j, k \in 1..Len(chains) : (Live(chains[j]) /\ Live(chains[k])) => j = k
    /\ \A k \in 1..Len(chains) :
          Live(chains[k]) => (mounted /\ chains[k].contract = mainContract)

====
